---- MODULE Spec2Model ----
(***************************************************************************)
(* SkalaEngineNumerics: fixed-point Vec2 / Vec3 arithmetic.                *)
(*                                                                         *)
(* The scalar of the crate is SignedFractional = fixed::types::I32F32      *)
(* (src/src/lib.rs:16): a two's complement integer `bits` read as          *)
(* bits / 2^FracBits.  TLC's integers are 32 bits wide, so the scalar is   *)
(* modelled with the same layout at a reduced width, IntBits integer bits  *)
(* and FracBits = 2 * HalfFracBits fractional bits (an even number, as 32  *)
(* is).  Every scalar below is the raw `bits` value.                       *)
(*                                                                         *)
(* An operation that can abort returns [ok, val]: ok = FALSE is a panic.   *)
(* Overflow of a scalar operation panics when the crate is built with      *)
(* debug assertions and wraps modulo 2^Bits when it is built without       *)
(* (the `fixed` operators check overflow with debug_assert!); the build    *)
(* is the variable debug_assertions.                                       *)
(***************************************************************************)
EXTENDS Integers, Sequences, FiniteSets, TLC

VARIABLES debug_assertions, vec, last, muts

vars == <<debug_assertions, vec, last, muts>>

\* ------------------------------------------------------------------ bounds
IntBits == 10
HalfFracBits == 2
MaxMut == 1
MaxInt == 13

\* ------------------------------------------------------- SignedFractional
FracBits == 2 * HalfFracBits
Bits == IntBits + FracBits

RECURSIVE Pow2(_)
Pow2(n) == IF n = 0 THEN 1 ELSE 2 * Pow2(n - 1)

Modulus == Pow2(Bits)
MIN == -Pow2(Bits - 1)
MAX == Pow2(Bits - 1) - 1
ZERO == 0
DELTA == 1
ONE == Pow2(FracBits)

\* n.into(): the integer n as a scalar (lossless for an integer in range)
FromInt(n) == n * ONE

InRange(n) == MIN <= n /\ n <= MAX

\* the low Bits bits of n, read as two's complement
Wrap(n) ==
    LET m == n % Modulus
    IN  IF m >= Pow2(Bits - 1) THEN m - Modulus ELSE m

Ok(v) == [ok |-> TRUE, val |-> v]
Panic(v) == [ok |-> FALSE, val |-> v]

\* the result of an operation whose exact result is n
Checked(n, dbg) ==
    IF InRange(n) THEN Ok(n)
    ELSE IF dbg THEN Panic(0) ELSE Ok(Wrap(n))

FixNeg(a, dbg) == Checked(-a, dbg)
FixAdd(a, b, dbg) == Checked(a + b, dbg)
FixSub(a, b, dbg) == Checked(a - b, dbg)

\* (a * b) >> FracBits on the wide product: rounds towards -infinity.  The
\* product is summed from the integer and the fractional part of a, which
\* is the same number and stays within TLC's integers.
MulShift(a, b) == (a \div ONE) * b + ((a % ONE) * b) \div ONE

FixMul(a, b, dbg) == Checked(MulShift(a, b), dbg)

\* the quotient of two integers truncated towards zero, as Rust's `/`
TruncDiv(n, d) ==
    LET q == (IF n < 0 THEN -n ELSE n) \div (IF d < 0 THEN -d ELSE d)
    IN  IF (n < 0) = (d < 0) THEN q ELSE -q

\* the numerator shifted left by FracBits, divided; a zero divisor panics
\* in every build
FixDiv(a, b, dbg) ==
    IF b = 0 THEN Panic(0) ELSE Checked(TruncDiv(a * ONE, b), dbg)

\* integer_sqrt: the floor of the square root, digit by digit
RECURSIVE IsqrtFrom(_, _, _)
IsqrtFrom(n, r, bit) ==
    IF bit = 0 THEN r
    ELSE IF (r + bit) * (r + bit) <= n
         THEN IsqrtFrom(n, r + bit, bit \div 2)
         ELSE IsqrtFrom(n, r, bit \div 2)

Isqrt(n) == IsqrtFrom(n, 0, Pow2(Bits \div 2))

\* FixedSqrt::sqrt: the integer square root of the raw bits, rescaled by
\* half the fractional bits; a negative operand panics in every build
FixSqrt(a) ==
    IF a < 0 THEN Panic(0) ELSE Ok(Isqrt(a) * Pow2(HalfFracBits))

\* Option<T>
None == [some |-> FALSE]
Some(v) == [some |-> TRUE, val |-> v]

\* ------------------------------------------------------------------- Vec2
Vec2_ZERO == [x |-> ZERO, y |-> ZERO]

Vec2_new(x, y) == [x |-> x, y |-> y]

\* self.x * self.x + self.y * self.y
Vec2_len_pow2(self, dbg) ==
    LET xx == FixMul(self.x, self.x, dbg)
        yy == FixMul(self.y, self.y, dbg)
    IN  IF xx.ok /\ yy.ok THEN FixAdd(xx.val, yy.val, dbg) ELSE Panic(0)

\* mutant: the root is taken of the absolute value
Vec2_len_of_absolute_value(self, dbg) ==
    LET p == Vec2_len_pow2(self, dbg)
    IN  IF p.ok THEN FixSqrt(IF p.val < 0 THEN -p.val ELSE p.val)
        ELSE Panic(0)

\* self.len_pow2().sqrt()
Vec2_len(self, dbg) ==
    LET p == Vec2_len_pow2(self, dbg)
    IN  IF p.ok THEN FixSqrt(p.val) ELSE Panic(0)

\* mutant: the components are divided by the squared length
Vec2_get_normalized_by_len_pow2(self, dbg) ==
    LET len == Vec2_len_pow2(self, dbg)
        x == FixDiv(self.x, len.val, dbg)
        y == FixDiv(self.y, len.val, dbg)
    IN  IF len.ok /\ x.ok /\ y.ok
        THEN Ok([x |-> x.val, y |-> y.val])
        ELSE Panic(0)

Vec2_get_normalized(self, dbg) ==
    LET len == Vec2_len(self, dbg)
        x == FixDiv(self.x, len.val, dbg)
        y == FixDiv(self.y, len.val, dbg)
    IN  IF len.ok /\ x.ok /\ y.ok
        THEN Ok([x |-> x.val, y |-> y.val])
        ELSE Panic(0)

\* mutant: the guard tests the vector, not its length
Vec2_try_get_normalized_tests_vector(self, dbg) ==
    LET len == Vec2_len(self, dbg)
        x == FixDiv(self.x, len.val, dbg)
        y == FixDiv(self.y, len.val, dbg)
    IN  IF ~len.ok THEN Panic(0)
        ELSE IF self = [x |-> ZERO, y |-> ZERO] THEN Ok(None)
        ELSE IF x.ok /\ y.ok THEN Ok(Some([x |-> x.val, y |-> y.val]))
        ELSE Panic(0)

\* mutant: only x is divided by the length
Vec2_try_get_normalized_keeps_y(self, dbg) ==
    LET len == Vec2_len(self, dbg)
        x == FixDiv(self.x, len.val, dbg)
    IN  IF ~len.ok THEN Panic(0)
        ELSE IF len.val = ZERO THEN Ok(None)
        ELSE IF x.ok THEN Ok(Some([x |-> x.val, y |-> self.y]))
        ELSE Panic(0)

Vec2_try_get_normalized(self, dbg) ==
    LET len == Vec2_len(self, dbg)
        x == FixDiv(self.x, len.val, dbg)
        y == FixDiv(self.y, len.val, dbg)
    IN  IF ~len.ok THEN Panic(0)
        ELSE IF len.val = ZERO THEN Ok(None)
        ELSE IF x.ok /\ y.ok THEN Ok(Some([x |-> x.val, y |-> y.val]))
        ELSE Panic(0)

\* mutant: the components are taken in the wrong order
Vec2_from_tuple_swapped(n) == [x |-> n[2], y |-> n[1]]

Vec2_from_tuple(n) == [x |-> n[1], y |-> n[2]]

Vec2_into_tuple(n) == <<n.x, n.y>>

\* mutant: only x is negated
Vec2_neg_x_only(self, dbg) ==
    LET x == FixNeg(self.x, dbg)
    IN  IF x.ok THEN Ok([x |-> x.val, y |-> self.y]) ELSE Panic(0)

Vec2_neg(self, dbg) ==
    LET x == FixNeg(self.x, dbg)
        y == FixNeg(self.y, dbg)
    IN  IF x.ok /\ y.ok THEN Ok([x |-> x.val, y |-> y.val]) ELSE Panic(0)

\* mutant: y is added to the x of the right-hand side
Vec2_add_rhs_x_twice(self, rhs, dbg) ==
    LET x == FixAdd(self.x, rhs.x, dbg)
        y == FixAdd(self.y, rhs.x, dbg)
    IN  IF x.ok /\ y.ok THEN Ok([x |-> x.val, y |-> y.val]) ELSE Panic(0)

Vec2_add(self, rhs, dbg) ==
    LET x == FixAdd(self.x, rhs.x, dbg)
        y == FixAdd(self.y, rhs.y, dbg)
    IN  IF x.ok /\ y.ok THEN Ok([x |-> x.val, y |-> y.val]) ELSE Panic(0)

\* self + Into::<Self>::into(rhs)
Vec2_add_tuple(self, rhs, dbg) == Vec2_add(self, Vec2_from_tuple(rhs), dbg)

Vec2_sub(self, rhs, dbg) ==
    LET x == FixSub(self.x, rhs.x, dbg)
        y == FixSub(self.y, rhs.y, dbg)
    IN  IF x.ok /\ y.ok THEN Ok([x |-> x.val, y |-> y.val]) ELSE Panic(0)

\* self - Into::<Self>::into(rhs)
Vec2_sub_tuple(self, rhs, dbg) == Vec2_sub(self, Vec2_from_tuple(rhs), dbg)

\* mutant: only x is multiplied
Vec2_mul_x_only(self, rhs, dbg) ==
    LET x == FixMul(self.x, rhs, dbg)
    IN  IF x.ok THEN Ok([x |-> x.val, y |-> self.y]) ELSE Panic(0)

Vec2_mul(self, rhs, dbg) ==
    LET x == FixMul(self.x, rhs, dbg)
        y == FixMul(self.y, rhs, dbg)
    IN  IF x.ok /\ y.ok THEN Ok([x |-> x.val, y |-> y.val]) ELSE Panic(0)

Vec2_div(self, rhs, dbg) ==
    LET x == FixDiv(self.x, rhs, dbg)
        y == FixDiv(self.y, rhs, dbg)
    IN  IF x.ok /\ y.ok THEN Ok([x |-> x.val, y |-> y.val]) ELSE Panic(0)

\* The compound assignments write self.x, then self.y: val is the receiver
\* the call leaves behind, also when the second statement panics.
Assign2(self, x, y) ==
    IF ~x.ok THEN Panic(self)
    ELSE IF ~y.ok THEN Panic([self EXCEPT !.x = x.val])
    ELSE Ok([x |-> x.val, y |-> y.val])

Vec2_add_assign(self, rhs, dbg) ==
    Assign2(self, FixAdd(self.x, rhs.x, dbg), FixAdd(self.y, rhs.y, dbg))

Vec2_add_assign_tuple(self, rhs, dbg) ==
    Assign2(self, FixAdd(self.x, rhs[1], dbg), FixAdd(self.y, rhs[2], dbg))

Vec2_sub_assign(self, rhs, dbg) ==
    Assign2(self, FixSub(self.x, rhs.x, dbg), FixSub(self.y, rhs.y, dbg))

Vec2_sub_assign_tuple(self, rhs, dbg) ==
    Assign2(self, FixSub(self.x, rhs[1], dbg), FixSub(self.y, rhs[2], dbg))

\* mutant: self.y is not written
Vec2_mul_assign_x_only(self, rhs, dbg) ==
    Assign2(self, FixMul(self.x, rhs, dbg), Ok(self.y))

Vec2_mul_assign(self, rhs, dbg) ==
    Assign2(self, FixMul(self.x, rhs, dbg), FixMul(self.y, rhs, dbg))

Vec2_div_assign(self, rhs, dbg) ==
    Assign2(self, FixDiv(self.x, rhs, dbg), FixDiv(self.y, rhs, dbg))

\* mutant: a zero length is skipped instead of divided by
Vec2_normalize_skips_zero(self, dbg) ==
    LET len == Vec2_len(self, dbg)
    IN  IF ~len.ok THEN Panic(self)
        ELSE IF len.val = ZERO THEN Ok(self)
        ELSE Vec2_div_assign(self, len.val, dbg)

\* *self /= self.len(): the length is computed first
Vec2_normalize(self, dbg) ==
    LET len == Vec2_len(self, dbg)
    IN  IF len.ok THEN Vec2_div_assign(self, len.val, dbg) ELSE Panic(self)

\* ------------------------------------------------------------------- Vec3
Vec3_ZERO == [x |-> ZERO, y |-> ZERO, z |-> ZERO]

\* x.into(), y.into(), z.into(): the arguments are scalars already converted
Vec3_new(x, y, z) == [x |-> x, y |-> y, z |-> z]

\* mutant: the z component is left out of the sum
Vec3_magintude_pow2_without_z(self, dbg) ==
    LET xx == FixMul(self.x, self.x, dbg)
        yy == FixMul(self.y, self.y, dbg)
    IN  IF xx.ok /\ yy.ok THEN FixAdd(xx.val, yy.val, dbg) ELSE Panic(0)

\* self.x * self.x + self.y * self.y + self.z * self.z
Vec3_magintude_pow2(self, dbg) ==
    LET xx == FixMul(self.x, self.x, dbg)
        yy == FixMul(self.y, self.y, dbg)
        zz == FixMul(self.z, self.z, dbg)
        xy == FixAdd(xx.val, yy.val, dbg)
    IN  IF xx.ok /\ yy.ok /\ zz.ok /\ xy.ok
        THEN FixAdd(xy.val, zz.val, dbg)
        ELSE Panic(0)

\* self.magintude_pow2().sqrt()
Vec3_magnitude(self, dbg) ==
    LET p == Vec3_magintude_pow2(self, dbg)
    IN  IF p.ok THEN FixSqrt(p.val) ELSE Panic(0)

Vec3_get_normalized(self, dbg) ==
    LET len == Vec3_magnitude(self, dbg)
        x == FixDiv(self.x, len.val, dbg)
        y == FixDiv(self.y, len.val, dbg)
        z == FixDiv(self.z, len.val, dbg)
    IN  IF len.ok /\ x.ok /\ y.ok /\ z.ok
        THEN Ok([x |-> x.val, y |-> y.val, z |-> z.val])
        ELSE Panic(0)

Vec3_try_get_normalized(self, dbg) ==
    LET len == Vec3_magnitude(self, dbg)
        x == FixDiv(self.x, len.val, dbg)
        y == FixDiv(self.y, len.val, dbg)
        z == FixDiv(self.z, len.val, dbg)
    IN  IF ~len.ok THEN Panic(0)
        ELSE IF len.val = ZERO THEN Ok(None)
        ELSE IF x.ok /\ y.ok /\ z.ok
             THEN Ok(Some([x |-> x.val, y |-> y.val, z |-> z.val]))
        ELSE Panic(0)

Vec3_from_tuple(n) == [x |-> n[1], y |-> n[2], z |-> n[3]]

Vec3_into_tuple(n) == <<n.x, n.y, n.z>>

Vec3_neg(self, dbg) ==
    LET x == FixNeg(self.x, dbg)
        y == FixNeg(self.y, dbg)
        z == FixNeg(self.z, dbg)
    IN  IF x.ok /\ y.ok /\ z.ok
        THEN Ok([x |-> x.val, y |-> y.val, z |-> z.val])
        ELSE Panic(0)

Vec3_add(self, rhs, dbg) ==
    LET x == FixAdd(self.x, rhs.x, dbg)
        y == FixAdd(self.y, rhs.y, dbg)
        z == FixAdd(self.z, rhs.z, dbg)
    IN  IF x.ok /\ y.ok /\ z.ok
        THEN Ok([x |-> x.val, y |-> y.val, z |-> z.val])
        ELSE Panic(0)

\* self + Into::<Self>::into(rhs)
Vec3_add_tuple(self, rhs, dbg) == Vec3_add(self, Vec3_from_tuple(rhs), dbg)

Vec3_sub(self, rhs, dbg) ==
    LET x == FixSub(self.x, rhs.x, dbg)
        y == FixSub(self.y, rhs.y, dbg)
        z == FixSub(self.z, rhs.z, dbg)
    IN  IF x.ok /\ y.ok /\ z.ok
        THEN Ok([x |-> x.val, y |-> y.val, z |-> z.val])
        ELSE Panic(0)

\* self - Into::<Self>::into(rhs)
Vec3_sub_tuple(self, rhs, dbg) == Vec3_sub(self, Vec3_from_tuple(rhs), dbg)

Vec3_mul(self, rhs, dbg) ==
    LET x == FixMul(self.x, rhs, dbg)
        y == FixMul(self.y, rhs, dbg)
        z == FixMul(self.z, rhs, dbg)
    IN  IF x.ok /\ y.ok /\ z.ok
        THEN Ok([x |-> x.val, y |-> y.val, z |-> z.val])
        ELSE Panic(0)

Vec3_div(self, rhs, dbg) ==
    LET x == FixDiv(self.x, rhs, dbg)
        y == FixDiv(self.y, rhs, dbg)
        z == FixDiv(self.z, rhs, dbg)
    IN  IF x.ok /\ y.ok /\ z.ok
        THEN Ok([x |-> x.val, y |-> y.val, z |-> z.val])
        ELSE Panic(0)

\* The compound assignments write self.x, self.y, then self.z.
Assign3(self, x, y, z) ==
    IF ~x.ok THEN Panic(self)
    ELSE IF ~y.ok THEN Panic([self EXCEPT !.x = x.val])
    ELSE IF ~z.ok THEN Panic([self EXCEPT !.x = x.val, !.y = y.val])
    ELSE Ok([x |-> x.val, y |-> y.val, z |-> z.val])

Vec3_add_assign(self, rhs, dbg) ==
    Assign3(self, FixAdd(self.x, rhs.x, dbg), FixAdd(self.y, rhs.y, dbg),
            FixAdd(self.z, rhs.z, dbg))

Vec3_add_assign_tuple(self, rhs, dbg) ==
    Assign3(self, FixAdd(self.x, rhs[1], dbg), FixAdd(self.y, rhs[2], dbg),
            FixAdd(self.z, rhs[3], dbg))

Vec3_sub_assign(self, rhs, dbg) ==
    Assign3(self, FixSub(self.x, rhs.x, dbg), FixSub(self.y, rhs.y, dbg),
            FixSub(self.z, rhs.z, dbg))

Vec3_sub_assign_tuple(self, rhs, dbg) ==
    Assign3(self, FixSub(self.x, rhs[1], dbg), FixSub(self.y, rhs[2], dbg),
            FixSub(self.z, rhs[3], dbg))

Vec3_mul_assign(self, rhs, dbg) ==
    Assign3(self, FixMul(self.x, rhs, dbg), FixMul(self.y, rhs, dbg),
            FixMul(self.z, rhs, dbg))

Vec3_div_assign(self, rhs, dbg) ==
    Assign3(self, FixDiv(self.x, rhs, dbg), FixDiv(self.y, rhs, dbg),
            FixDiv(self.z, rhs, dbg))

\* *self /= self.magnitude(): the magnitude is computed first
Vec3_normalize(self, dbg) ==
    LET len == Vec3_magnitude(self, dbg)
    IN  IF len.ok THEN Vec3_div_assign(self, len.val, dbg) ELSE Panic(self)

\* ------------------------------------------------------------ the inputs
Is2(v) == DOMAIN v = {"x", "y"}
Is3(v) == DOMAIN v = {"x", "y", "z"}

Scalars2 ==
    {ZERO, DELTA, -DELTA, ONE, FromInt(3), FromInt(4), FromInt(-6),
     FromInt(Pow2(IntBits - 2)), MAX, MIN}

Scalars3 == {ZERO, DELTA, FromInt(4), FromInt(20), MIN}

ScalarArgs == {ZERO, DELTA, ONE, FromInt(2), -ONE}

RhsVec2 ==
    {Vec2_new(ONE, FromInt(2)), Vec2_new(MAX, -DELTA), Vec2_new(MIN, DELTA)}

RhsVec3 ==
    {Vec3_new(ONE, FromInt(2), -ONE), Vec3_new(-DELTA, MAX, ZERO),
     Vec3_new(DELTA, ONE, MIN)}

\* ------------------------------------------------------------ the machine
\* vec is the vector the caller holds, last the last call (its receiver and
\* argument, whether it returned, and what), muts the number of in-place
\* calls made on vec since it was constructed.  A run starts with the
\* default vector, constructs a vector, mutates it in place up to MaxMut
\* times and then calls one operation that returns a value; a panic ends
\* the run.  Every operation reads the receiver and its arguments only, so
\* calls in any other order reach the same states.
Call(kind, op, arg, ok, ret) ==
    [kind |-> kind, op |-> op, self |-> vec, arg |-> arg, ok |-> ok,
     ret |-> ret]

\* #[derive(Default)]: both components SignedFractional::default()
Vec2_default == [x |-> ZERO, y |-> ZERO]

Init ==
    /\ debug_assertions \in BOOLEAN
    /\ vec = Vec2_default
    /\ last = [kind |-> "init", op |-> "Vec2::default", self |-> vec,
               arg |-> "none", ok |-> TRUE, ret |-> vec]
    /\ muts = 0

\* a call that returns a value (or panics) and leaves the receiver alone
Returns(op, arg, r) ==
    /\ last.ok
    /\ last.kind # "value"
    /\ last' = Call("value", op, arg, r.ok, IF r.ok THEN r.val ELSE "panic")
    /\ UNCHANGED <<debug_assertions, vec, muts>>

\* a call on &mut self: the receiver is what the call left behind
Mutates(op, arg, r) ==
    /\ last.ok
    /\ last.kind # "value"
    /\ muts < MaxMut
    /\ last' = Call("mut", op, arg, r.ok, IF r.ok THEN "unit" ELSE "panic")
    /\ vec' = r.val
    /\ muts' = muts + 1
    /\ UNCHANGED debug_assertions

\* a constructor: the caller holds a new vector
Constructs(op, arg, v) ==
    /\ last' = [kind |-> "new", op |-> op, self |-> v, arg |-> arg,
                ok |-> TRUE, ret |-> v]
    /\ vec' = v
    /\ muts' = 0
    /\ UNCHANGED debug_assertions

Do_Vec2_new ==
    /\ last.kind = "init"
    /\ \E x \in Scalars2, y \in Scalars2 :
        Constructs("Vec2::new", "none", Vec2_new(x, y))

Do_Vec2_from_tuple ==
    /\ last.kind = "init"
    /\ \E x \in Scalars2, y \in Scalars2 :
        Constructs("Vec2::from", <<x, y>>, Vec2_from_tuple(<<x, y>>))

Do_Vec2_into_tuple ==
    Is2(vec) /\ Returns("Vec2::into", "none", Ok(Vec2_into_tuple(vec)))

Do_Vec2_len_pow2 ==
    Is2(vec) /\ Returns("Vec2::len_pow2", "none",
                        Vec2_len_pow2(vec, debug_assertions))

Do_Vec2_len ==
    Is2(vec) /\ Returns("Vec2::len", "none", Vec2_len(vec, debug_assertions))

Do_Vec2_normalize ==
    Is2(vec) /\ Mutates("Vec2::normalize", "none",
                        Vec2_normalize(vec, debug_assertions))

Do_Vec2_get_normalized ==
    Is2(vec) /\ Returns("Vec2::get_normalized", "none",
                        Vec2_get_normalized(vec, debug_assertions))

Do_Vec2_try_get_normalized ==
    Is2(vec) /\ Returns("Vec2::try_get_normalized", "none",
                        Vec2_try_get_normalized(vec, debug_assertions))

Do_Vec2_neg ==
    Is2(vec) /\ Returns("Vec2::neg", "none", Vec2_neg(vec, debug_assertions))

Do_Vec2_add ==
    /\ Is2(vec)
    /\ \E rhs \in RhsVec2 \cup {vec} :
        Returns("Vec2::add", rhs, Vec2_add(vec, rhs, debug_assertions))

Do_Vec2_add_tuple ==
    /\ Is2(vec)
    /\ \E rhs \in RhsVec2 :
        Returns("Vec2::add_tuple", Vec2_into_tuple(rhs),
                Vec2_add_tuple(vec, Vec2_into_tuple(rhs), debug_assertions))

Do_Vec2_add_assign ==
    /\ Is2(vec)
    /\ \E rhs \in RhsVec2 \cup {vec} :
        Mutates("Vec2::add_assign", rhs,
                Vec2_add_assign(vec, rhs, debug_assertions))

Do_Vec2_add_assign_tuple ==
    /\ Is2(vec)
    /\ \E rhs \in RhsVec2 :
        Mutates("Vec2::add_assign_tuple", Vec2_into_tuple(rhs),
                Vec2_add_assign_tuple(vec, Vec2_into_tuple(rhs),
                                      debug_assertions))

Do_Vec2_sub ==
    /\ Is2(vec)
    /\ \E rhs \in RhsVec2 \cup {vec} :
        Returns("Vec2::sub", rhs, Vec2_sub(vec, rhs, debug_assertions))

Do_Vec2_sub_tuple ==
    /\ Is2(vec)
    /\ \E rhs \in RhsVec2 :
        Returns("Vec2::sub_tuple", Vec2_into_tuple(rhs),
                Vec2_sub_tuple(vec, Vec2_into_tuple(rhs), debug_assertions))

Do_Vec2_sub_assign ==
    /\ Is2(vec)
    /\ \E rhs \in RhsVec2 \cup {vec} :
        Mutates("Vec2::sub_assign", rhs,
                Vec2_sub_assign(vec, rhs, debug_assertions))

Do_Vec2_sub_assign_tuple ==
    /\ Is2(vec)
    /\ \E rhs \in RhsVec2 :
        Mutates("Vec2::sub_assign_tuple", Vec2_into_tuple(rhs),
                Vec2_sub_assign_tuple(vec, Vec2_into_tuple(rhs),
                                      debug_assertions))

Do_Vec2_mul ==
    /\ Is2(vec)
    /\ \E rhs \in ScalarArgs :
        Returns("Vec2::mul", rhs, Vec2_mul(vec, rhs, debug_assertions))

Do_Vec2_mul_assign ==
    /\ Is2(vec)
    /\ \E rhs \in ScalarArgs :
        Mutates("Vec2::mul_assign", rhs,
                Vec2_mul_assign(vec, rhs, debug_assertions))

Do_Vec2_div ==
    /\ Is2(vec)
    /\ \E rhs \in ScalarArgs :
        Returns("Vec2::div", rhs, Vec2_div(vec, rhs, debug_assertions))

Do_Vec2_div_assign ==
    /\ Is2(vec)
    /\ \E rhs \in ScalarArgs :
        Mutates("Vec2::div_assign", rhs,
                Vec2_div_assign(vec, rhs, debug_assertions))

Do_Vec3_new ==
    /\ last.kind = "init"
    /\ \E x \in Scalars3, y \in Scalars3, z \in Scalars3 :
        Constructs("Vec3::new", "none", Vec3_new(x, y, z))

Do_Vec3_from_tuple ==
    /\ last.kind = "init"
    /\ \E x \in Scalars3, y \in Scalars3, z \in Scalars3 :
        Constructs("Vec3::from", <<x, y, z>>, Vec3_from_tuple(<<x, y, z>>))

Do_Vec3_into_tuple ==
    Is3(vec) /\ Returns("Vec3::into", "none", Ok(Vec3_into_tuple(vec)))

Do_Vec3_magintude_pow2 ==
    Is3(vec) /\ Returns("Vec3::magintude_pow2", "none",
                        Vec3_magintude_pow2(vec, debug_assertions))

Do_Vec3_magnitude ==
    Is3(vec) /\ Returns("Vec3::magnitude", "none", Vec3_magnitude(vec, debug_assertions))

Do_Vec3_normalize ==
    Is3(vec) /\ Mutates("Vec3::normalize", "none",
                        Vec3_normalize(vec, debug_assertions))

Do_Vec3_get_normalized ==
    Is3(vec) /\ Returns("Vec3::get_normalized", "none",
                        Vec3_get_normalized(vec, debug_assertions))

Do_Vec3_try_get_normalized ==
    Is3(vec) /\ Returns("Vec3::try_get_normalized", "none",
                        Vec3_try_get_normalized(vec, debug_assertions))

Do_Vec3_neg ==
    Is3(vec) /\ Returns("Vec3::neg", "none", Vec3_neg(vec, debug_assertions))

Do_Vec3_add ==
    /\ Is3(vec)
    /\ \E rhs \in RhsVec3 \cup {vec} :
        Returns("Vec3::add", rhs, Vec3_add(vec, rhs, debug_assertions))

Do_Vec3_add_tuple ==
    /\ Is3(vec)
    /\ \E rhs \in RhsVec3 :
        Returns("Vec3::add_tuple", Vec3_into_tuple(rhs),
                Vec3_add_tuple(vec, Vec3_into_tuple(rhs), debug_assertions))

Do_Vec3_add_assign ==
    /\ Is3(vec)
    /\ \E rhs \in RhsVec3 \cup {vec} :
        Mutates("Vec3::add_assign", rhs,
                Vec3_add_assign(vec, rhs, debug_assertions))

Do_Vec3_add_assign_tuple ==
    /\ Is3(vec)
    /\ \E rhs \in RhsVec3 :
        Mutates("Vec3::add_assign_tuple", Vec3_into_tuple(rhs),
                Vec3_add_assign_tuple(vec, Vec3_into_tuple(rhs),
                                      debug_assertions))

Do_Vec3_sub ==
    /\ Is3(vec)
    /\ \E rhs \in RhsVec3 \cup {vec} :
        Returns("Vec3::sub", rhs, Vec3_sub(vec, rhs, debug_assertions))

Do_Vec3_sub_tuple ==
    /\ Is3(vec)
    /\ \E rhs \in RhsVec3 :
        Returns("Vec3::sub_tuple", Vec3_into_tuple(rhs),
                Vec3_sub_tuple(vec, Vec3_into_tuple(rhs), debug_assertions))

Do_Vec3_sub_assign ==
    /\ Is3(vec)
    /\ \E rhs \in RhsVec3 \cup {vec} :
        Mutates("Vec3::sub_assign", rhs,
                Vec3_sub_assign(vec, rhs, debug_assertions))

Do_Vec3_sub_assign_tuple ==
    /\ Is3(vec)
    /\ \E rhs \in RhsVec3 :
        Mutates("Vec3::sub_assign_tuple", Vec3_into_tuple(rhs),
                Vec3_sub_assign_tuple(vec, Vec3_into_tuple(rhs),
                                      debug_assertions))

Do_Vec3_mul ==
    /\ Is3(vec)
    /\ \E rhs \in ScalarArgs :
        Returns("Vec3::mul", rhs, Vec3_mul(vec, rhs, debug_assertions))

Do_Vec3_mul_assign ==
    /\ Is3(vec)
    /\ \E rhs \in ScalarArgs :
        Mutates("Vec3::mul_assign", rhs,
                Vec3_mul_assign(vec, rhs, debug_assertions))

Do_Vec3_div ==
    /\ Is3(vec)
    /\ \E rhs \in ScalarArgs :
        Returns("Vec3::div", rhs, Vec3_div(vec, rhs, debug_assertions))

Do_Vec3_div_assign ==
    /\ Is3(vec)
    /\ \E rhs \in ScalarArgs :
        Mutates("Vec3::div_assign", rhs,
                Vec3_div_assign(vec, rhs, debug_assertions))

Next ==
    \/ Do_Vec2_new
    \/ Do_Vec2_from_tuple
    \/ Do_Vec2_into_tuple
    \/ Do_Vec2_len_pow2
    \/ Do_Vec2_len
    \/ Do_Vec2_normalize
    \/ Do_Vec2_get_normalized
    \/ Do_Vec2_try_get_normalized
    \/ Do_Vec2_neg
    \/ Do_Vec2_add
    \/ Do_Vec2_add_tuple
    \/ Do_Vec2_add_assign
    \/ Do_Vec2_add_assign_tuple
    \/ Do_Vec2_sub
    \/ Do_Vec2_sub_tuple
    \/ Do_Vec2_sub_assign
    \/ Do_Vec2_sub_assign_tuple
    \/ Do_Vec2_mul
    \/ Do_Vec2_mul_assign
    \/ Do_Vec2_div
    \/ Do_Vec2_div_assign
    \/ Do_Vec3_new
    \/ Do_Vec3_from_tuple
    \/ Do_Vec3_into_tuple
    \/ Do_Vec3_magintude_pow2
    \/ Do_Vec3_magnitude
    \/ Do_Vec3_normalize
    \/ Do_Vec3_get_normalized
    \/ Do_Vec3_try_get_normalized
    \/ Do_Vec3_neg
    \/ Do_Vec3_add
    \/ Do_Vec3_add_tuple
    \/ Do_Vec3_add_assign
    \/ Do_Vec3_add_assign_tuple
    \/ Do_Vec3_sub
    \/ Do_Vec3_sub_tuple
    \/ Do_Vec3_sub_assign
    \/ Do_Vec3_sub_assign_tuple
    \/ Do_Vec3_mul
    \/ Do_Vec3_mul_assign
    \/ Do_Vec3_div
    \/ Do_Vec3_div_assign

Spec == Init /\ [][Next]_vars

\* The lengths of the vectors of integer components: Vec2::new(3.into(),
\* 4.into()), Vec3::new(3, 4, 12), every integer from -MaxInt to MaxInt.
IntScalars == {FromInt(n) : n \in -MaxInt..MaxInt}

Do_Vec2_new_of_integers ==
    /\ last.kind = "init"
    /\ \E x \in IntScalars, y \in IntScalars :
        Constructs("Vec2::new", "none", Vec2_new(x, y))

Do_Vec3_new_of_integers ==
    /\ last.kind = "init"
    /\ \E x \in IntScalars, y \in IntScalars, z \in IntScalars :
        Constructs("Vec3::new", "none", Vec3_new(x, y, z))

NextInt ==
    \/ Do_Vec2_new_of_integers
    \/ Do_Vec3_new_of_integers
    \/ Do_Vec2_len_pow2
    \/ Do_Vec2_len
    \/ Do_Vec3_magintude_pow2
    \/ Do_Vec3_magnitude

SpecInt == Init /\ [][NextInt]_vars

\* Vectors of integer components, normalized by the two value-returning
\* entry points.
NextNorm ==
    \/ Do_Vec2_new_of_integers
    \/ Do_Vec3_new_of_integers
    \/ Do_Vec2_get_normalized
    \/ Do_Vec2_try_get_normalized
    \/ Do_Vec3_get_normalized
    \/ Do_Vec3_try_get_normalized

SpecNorm == Init /\ [][NextNorm]_vars

\* ------------------------------------------------------------- the claims
ZeroVectors == {Vec2_ZERO, Vec3_ZERO}

\* C1: normalize() and get_normalized() on the zero vector panic: the call
\* returns nothing, and normalize() leaves the receiver the zero vector it
\* was, not a normalized one.
C1_ZeroVectorIsFatal ==
    /\ last.op \in {"Vec2::get_normalized", "Vec3::get_normalized"}
       /\ last.self \in ZeroVectors
       => ~last.ok /\ last.ret = "panic"
    /\ last.op \in {"Vec2::normalize", "Vec3::normalize"}
       /\ last.self \in ZeroVectors
       => ~last.ok /\ last.ret = "panic" /\ vec = last.self

C1_Witness ==
    /\ last.op = "Vec2::normalize"
    /\ last.self = Vec2_ZERO
    /\ ~last.ok

\* C2: whenever the length of the receiver is computed, try_get_normalized()
\* returns None if that length is SignedFractional::ZERO and otherwise
\* returns Some of the vector of the components divided by the length.
C2_NoneIffZeroLength ==
    /\ last.op = "Vec2::try_get_normalized" =>
          LET len == FixSqrt(Vec2_len_pow2(last.self, debug_assertions).val)
          IN  Vec2_len_pow2(last.self, debug_assertions).ok /\ len.ok =>
                /\ last.ok
                /\ last.ret =
                     IF len.val = ZERO THEN None
                     ELSE Some([x |-> FixDiv(last.self.x, len.val,
                                             debug_assertions).val,
                                y |-> FixDiv(last.self.y, len.val,
                                             debug_assertions).val])
    /\ last.op = "Vec3::try_get_normalized" =>
          LET len == FixSqrt(Vec3_magintude_pow2(last.self,
                                                 debug_assertions).val)
          IN  Vec3_magintude_pow2(last.self, debug_assertions).ok /\ len.ok =>
                /\ last.ok
                /\ last.ret =
                     IF len.val = ZERO THEN None
                     ELSE Some([x |-> FixDiv(last.self.x, len.val,
                                             debug_assertions).val,
                                y |-> FixDiv(last.self.y, len.val,
                                             debug_assertions).val,
                                z |-> FixDiv(last.self.z, len.val,
                                             debug_assertions).val])

C2_Witness ==
    /\ last.op = "Vec2::try_get_normalized"
    /\ last.self = Vec2_new(FromInt(3), FromInt(4))
    /\ last.ok
    /\ last.ret # None

\* C3: try_get_normalized() returns None only for the zero vector.
C3_NoneOnlyForZeroVector ==
    /\ last.op \in {"Vec2::try_get_normalized", "Vec3::try_get_normalized"}
    /\ last.ok
    /\ last.ret = None
    => last.self \in ZeroVectors

\* C4: try_get_normalized() never panics: it returns Some or None for every
\* vector.
C4_TryNeverPanics ==
    last.op \in {"Vec2::try_get_normalized", "Vec3::try_get_normalized"}
    => last.ok

\* the components of a vector, in x, y(, z) order
Comps(v) == IF Is2(v) THEN <<v.x, v.y>> ELSE <<v.x, v.y, v.z>>

VecRhsOps ==
    {"Vec2::add", "Vec2::sub", "Vec2::add_assign", "Vec2::sub_assign",
     "Vec3::add", "Vec3::sub", "Vec3::add_assign", "Vec3::sub_assign"}
AddOps ==
    {"Vec2::add", "Vec2::add_tuple", "Vec2::add_assign",
     "Vec2::add_assign_tuple", "Vec3::add", "Vec3::add_tuple",
     "Vec3::add_assign", "Vec3::add_assign_tuple"}
SubOps ==
    {"Vec2::sub", "Vec2::sub_tuple", "Vec2::sub_assign",
     "Vec2::sub_assign_tuple", "Vec3::sub", "Vec3::sub_tuple",
     "Vec3::sub_assign", "Vec3::sub_assign_tuple"}
NegOps == {"Vec2::neg", "Vec3::neg"}
MulOps == {"Vec2::mul", "Vec2::mul_assign", "Vec3::mul", "Vec3::mul_assign"}
DivOps == {"Vec2::div", "Vec2::div_assign", "Vec3::div", "Vec3::div_assign"}
PowOps == {"Vec2::len_pow2", "Vec3::magintude_pow2"}

RECURSIVE SumSeq(_)
SumSeq(q) == IF q = <<>> THEN 0 ELSE Head(q) + SumSeq(Tail(q))

\* C5: an operation that computes a component outside the range of the
\* scalar panics; it never returns a value.
C5_OverflowPanics ==
    LET s == Comps(last.self)
        a == IF last.op \in VecRhsOps THEN Comps(last.arg) ELSE last.arg
        I == 1..Len(s)
        sq == [i \in I |-> MulShift(s[i], s[i])]
    IN  /\ last.op \in AddOps /\ (\E i \in I : ~InRange(s[i] + a[i]))
           => ~last.ok
        /\ last.op \in SubOps /\ (\E i \in I : ~InRange(s[i] - a[i]))
           => ~last.ok
        /\ last.op \in NegOps /\ (\E i \in I : ~InRange(-s[i]))
           => ~last.ok
        /\ last.op \in MulOps /\ (\E i \in I : ~InRange(MulShift(s[i], a)))
           => ~last.ok
        /\ last.op \in DivOps /\ a # 0
           /\ (\E i \in I : ~InRange(TruncDiv(s[i] * ONE, a)))
           => ~last.ok
        /\ last.op \in PowOps
           /\ ((\E i \in I : ~InRange(sq[i])) \/ ~InRange(SumSeq(sq)))
           => ~last.ok

\* C6: a normalized vector has magnitude exactly 1.
C6_NormalizedHasLengthOne ==
    /\ last.op = "Vec2::get_normalized" /\ last.ok
       => Vec2_len(last.ret, debug_assertions) = Ok(ONE)
    /\ last.op = "Vec2::normalize" /\ last.ok
       => Vec2_len(vec, debug_assertions) = Ok(ONE)
    /\ last.op = "Vec3::get_normalized" /\ last.ok
       => Vec3_magnitude(last.ret, debug_assertions) = Ok(ONE)
    /\ last.op = "Vec3::normalize" /\ last.ok
       => Vec3_magnitude(vec, debug_assertions) = Ok(ONE)

\* C7 as claimed: for every vector v, the minimum value included,
\* v + (-v) == ZERO and v - v == ZERO.
C7_InverseForEveryVector ==
    /\ last.op = "Vec2::neg" =>
          /\ last.ok
          /\ Vec2_add(last.self, last.ret, debug_assertions) = Ok(Vec2_ZERO)
    /\ last.op = "Vec3::neg" =>
          /\ last.ok
          /\ Vec3_add(last.self, last.ret, debug_assertions) = Ok(Vec3_ZERO)
    /\ last.op = "Vec2::sub" /\ last.arg = last.self
       => last.ok /\ last.ret = Vec2_ZERO
    /\ last.op = "Vec3::sub" /\ last.arg = last.self
       => last.ok /\ last.ret = Vec3_ZERO

HasMin(v) == \E i \in 1..Len(Comps(v)) : Comps(v)[i] = MIN

\* C7 amended: for every vector v with no component equal to the minimum
\* value, v + (-v) == ZERO; for every vector v, v - v == ZERO.
C7_InverseUnlessMin ==
    /\ last.op = "Vec2::neg" /\ ~HasMin(last.self) =>
          /\ last.ok
          /\ Vec2_add(last.self, last.ret, debug_assertions) = Ok(Vec2_ZERO)
    /\ last.op = "Vec3::neg" /\ ~HasMin(last.self) =>
          /\ last.ok
          /\ Vec3_add(last.self, last.ret, debug_assertions) = Ok(Vec3_ZERO)
    /\ last.op = "Vec2::sub" /\ last.arg = last.self
       => last.ok /\ last.ret = Vec2_ZERO
    /\ last.op = "Vec3::sub" /\ last.arg = last.self
       => last.ok /\ last.ret = Vec3_ZERO

C7_Witness ==
    /\ last.op = "Vec2::neg"
    /\ last.self = Vec2_new(MAX, FromInt(-6))
    /\ last.ok
    /\ last.ret = Vec2_new(MIN + DELTA, FromInt(6))

\* C8: a vector converted to a tuple and back is the same vector, a tuple
\* converted to a vector and back is the same tuple, and the components
\* keep their x, y(, z) order.
C8_TupleRoundTrip ==
    /\ last.op = "Vec2::into" =>
          /\ last.ret = <<last.self.x, last.self.y>>
          /\ Vec2_from_tuple(last.ret) = last.self
    /\ last.op = "Vec2::from" =>
          /\ last.ret.x = last.arg[1] /\ last.ret.y = last.arg[2]
          /\ Vec2_into_tuple(last.ret) = last.arg
    /\ last.op = "Vec3::into" =>
          /\ last.ret = <<last.self.x, last.self.y, last.self.z>>
          /\ Vec3_from_tuple(last.ret) = last.self
    /\ last.op = "Vec3::from" =>
          /\ last.ret.x = last.arg[1] /\ last.ret.y = last.arg[2]
          /\ last.ret.z = last.arg[3]
          /\ Vec3_into_tuple(last.ret) = last.arg

C8_Witness ==
    /\ last.op = "Vec2::from"
    /\ last.arg = <<FromInt(3), MIN>>
    /\ vec = Vec2_new(FromInt(3), MIN)

\* the sum of the squares of the components of a vector of integers
SquareSum(v) ==
    LET s == Comps(v)
    IN  SumSeq([i \in 1..Len(s) |-> (s[i] \div ONE) * (s[i] \div ONE)])

IsIntegers(v) == \A i \in 1..Len(Comps(v)) : Comps(v)[i] % ONE = 0

\* C9: when the components are integers whose squares sum to a perfect
\* square n * n that the scalar can hold, len_pow2() is exactly n * n and
\* len() is exactly n.
C9_ExactLengthOfIntegers ==
    last.op \in PowOps \cup {"Vec2::len", "Vec3::magnitude"}
    /\ IsIntegers(last.self)
    => LET sum == SquareSum(last.self)
       IN  \A n \in 0..(2 * MaxInt) :
               sum = n * n /\ n * n <= MAX \div ONE
               => /\ last.ok
                  /\ last.op \in PowOps => last.ret = FromInt(n * n)
                  /\ last.op \notin PowOps => last.ret = FromInt(n)

C9_Witness ==
    /\ last.op = "Vec3::magnitude"
    /\ last.self = Vec3_new(FromInt(3), FromInt(4), FromInt(12))
    /\ last.ok
    /\ last.ret = FromInt(13)

TWO == FromInt(2)

\* an even integer
IsEven(c) == c % (2 * ONE) = 0
AllEven(v) == \A i \in 1..Len(Comps(v)) : IsEven(Comps(v)[i])
DoubleFits(v) == \A i \in 1..Len(Comps(v)) : InRange(2 * Comps(v)[i])

\* C10 as claimed: for every vector v of even components, (v * 2) / 2 == v
\* and (v / 2) * 2 == v.
C10_DoubleHalveEveryEven ==
    AllEven(last.self) /\ last.op \in MulOps \cup DivOps /\ last.arg = TWO =>
        /\ last.op = "Vec2::mul" =>
              /\ last.ok
              /\ Vec2_div(last.ret, TWO, debug_assertions) = Ok(last.self)
        /\ last.op = "Vec3::mul" =>
              /\ last.ok
              /\ Vec3_div(last.ret, TWO, debug_assertions) = Ok(last.self)
        /\ last.op = "Vec2::div" =>
              /\ last.ok
              /\ Vec2_mul(last.ret, TWO, debug_assertions) = Ok(last.self)
        /\ last.op = "Vec3::div" =>
              /\ last.ok
              /\ Vec3_mul(last.ret, TWO, debug_assertions) = Ok(last.self)

\* C10 amended: for every vector v of even components whose doubles the
\* scalar can hold, (v * 2) / 2 == v; for every vector v of even components,
\* (v / 2) * 2 == v.
C10_DoubleHalveInRange ==
    AllEven(last.self) /\ last.op \in MulOps \cup DivOps /\ last.arg = TWO =>
        /\ last.op = "Vec2::mul" /\ DoubleFits(last.self) =>
              /\ last.ok
              /\ Vec2_div(last.ret, TWO, debug_assertions) = Ok(last.self)
        /\ last.op = "Vec3::mul" /\ DoubleFits(last.self) =>
              /\ last.ok
              /\ Vec3_div(last.ret, TWO, debug_assertions) = Ok(last.self)
        /\ last.op = "Vec2::div" =>
              /\ last.ok
              /\ Vec2_mul(last.ret, TWO, debug_assertions) = Ok(last.self)
        /\ last.op = "Vec3::div" =>
              /\ last.ok
              /\ Vec3_mul(last.ret, TWO, debug_assertions) = Ok(last.self)

C10_Witness ==
    /\ last.op = "Vec2::mul"
    /\ last.arg = TWO
    /\ last.self = Vec2_new(FromInt(4), FromInt(-6))
    /\ last.ok
    /\ last.ret = Vec2_new(FromInt(8), FromInt(-12))


\* C11 as claimed: for all vectors v and w (component-wise, for all scalars
\* a and b), v + w - w == v and v * 1 == v.
C11_AddSubIdentityEverywhere ==
    /\ last.op = "Vec2::add" =>
          /\ last.ok
          /\ Vec2_sub(last.ret, last.arg, debug_assertions) = Ok(last.self)
    /\ last.op = "Vec3::add" =>
          /\ last.ok
          /\ Vec3_sub(last.ret, last.arg, debug_assertions) = Ok(last.self)
    /\ last.op \in {"Vec2::mul", "Vec3::mul"} /\ last.arg = ONE
       => last.ok /\ last.ret = last.self

SumFits(v, w) ==
    \A i \in 1..Len(Comps(v)) : InRange(Comps(v)[i] + Comps(w)[i])

\* C11 amended: for all vectors v and w whose component-wise sums the
\* scalar can hold, v + w - w == v; for every vector v, v * 1 == v.
C11_AddSubIdentityInRange ==
    /\ last.op = "Vec2::add" /\ SumFits(last.self, last.arg) =>
          /\ last.ok
          /\ Vec2_sub(last.ret, last.arg, debug_assertions) = Ok(last.self)
    /\ last.op = "Vec3::add" /\ SumFits(last.self, last.arg) =>
          /\ last.ok
          /\ Vec3_sub(last.ret, last.arg, debug_assertions) = Ok(last.self)
    /\ last.op \in {"Vec2::mul", "Vec3::mul"} /\ last.arg = ONE
       => last.ok /\ last.ret = last.self

C11_Witness ==
    /\ last.op = "Vec2::add"
    /\ last.self = Vec2_new(FromInt(3), -DELTA)
    /\ last.arg = Vec2_new(ONE, FromInt(2))
    /\ last.ok
    /\ last.ret = Vec2_new(FromInt(4), FromInt(2) - DELTA)


\* The positive integers k of the inputs whose square the scalar can hold.
AxisLengths == {FromInt(k) : k \in {n \in 1..MaxInt : InRange(FromInt(n * n))}}

\* C12: a vector whose only non-zero component is a positive integer k, k*k
\* in the scalar's range, normalizes to the unit axis vector:
\* (k, 0).get_normalized() == (1, 0), (k, 0, 0).get_normalized() == (1, 0, 0),
\* and try_get_normalized() returns Some of the same vector.
C12_AxisVectorNormalizesToUnit ==
    /\ last.op \in {"Vec2::get_normalized", "Vec2::try_get_normalized"}
       /\ last.self.x \in AxisLengths /\ last.self.y = ZERO
       => /\ last.ok
          /\ last.ret = IF last.op = "Vec2::get_normalized"
                        THEN Vec2_new(ONE, ZERO)
                        ELSE Some(Vec2_new(ONE, ZERO))
    /\ last.op \in {"Vec3::get_normalized", "Vec3::try_get_normalized"}
       /\ last.self.x \in AxisLengths /\ last.self.y = ZERO
       /\ last.self.z = ZERO
       => /\ last.ok
          /\ last.ret = IF last.op = "Vec3::get_normalized"
                        THEN Vec3_new(ONE, ZERO, ZERO)
                        ELSE Some(Vec3_new(ONE, ZERO, ZERO))

C12_Witness ==
    /\ last.op = "Vec2::get_normalized"
    /\ last.self = Vec2_new(FromInt(6), ZERO)
    /\ last.ok
    /\ last.ret = Vec2_new(ONE, ZERO)


\* The value len() / magnitude() hands to sqrt: the squared length of the
\* receiver.
SqrtOperand(v, dbg) ==
    IF Is2(v) THEN Vec2_len_pow2(v, dbg) ELSE Vec3_magintude_pow2(v, dbg)

\* C13: when the value passed to sqrt inside len() / magnitude() is
\* negative, the call panics and returns no magnitude.
C13_NegativeSqrtPanics ==
    last.op \in {"Vec2::len", "Vec3::magnitude"}
    /\ SqrtOperand(last.self, debug_assertions).ok
    /\ SqrtOperand(last.self, debug_assertions).val < ZERO
    => ~last.ok /\ last.ret = "panic"

C13_Witness ==
    /\ last.op = "Vec2::len"
    /\ last.self = Vec2_new(MAX, ZERO)
    /\ ~debug_assertions
    /\ Vec2_len_pow2(last.self, debug_assertions).ok
    /\ Vec2_len_pow2(last.self, debug_assertions).val < ZERO
    /\ ~last.ok


\* C14: in-place normalize() aborts on the zero vector only; on every
\* non-zero Vec2 or Vec3 it completes and leaves the receiver holding its
\* components divided by its length.
C14_NormalizeTotalOnNonZero ==
    last.op \in {"Vec2::normalize", "Vec3::normalize"} =>
        /\ last.ok <=> last.self \notin ZeroVectors
        /\ last.ok /\ Is2(last.self) =>
              LET len == Vec2_len(last.self, debug_assertions)
              IN  vec = Vec2_div(last.self, len.val, debug_assertions).val
        /\ last.ok /\ Is3(last.self) =>
              LET len == Vec3_magnitude(last.self, debug_assertions)
              IN  vec = Vec3_div(last.self, len.val, debug_assertions).val


AssignOps ==
    {"Vec2::add_assign", "Vec2::add_assign_tuple", "Vec2::sub_assign",
     "Vec2::sub_assign_tuple", "Vec2::mul_assign", "Vec2::div_assign",
     "Vec3::add_assign", "Vec3::add_assign_tuple", "Vec3::sub_assign",
     "Vec3::sub_assign_tuple", "Vec3::mul_assign", "Vec3::div_assign"}

ValueOps ==
    {"Vec2::add", "Vec2::add_tuple", "Vec2::sub", "Vec2::sub_tuple",
     "Vec2::mul", "Vec2::div",
     "Vec3::add", "Vec3::add_tuple", "Vec3::sub", "Vec3::sub_tuple",
     "Vec3::mul", "Vec3::div"}

\* What the value-returning operator of a compound assignment returns.
ValueForm(op, v, rhs, dbg) ==
    CASE op = "Vec2::add_assign"       -> Vec2_add(v, rhs, dbg)
      [] op = "Vec2::add_assign_tuple" -> Vec2_add_tuple(v, rhs, dbg)
      [] op = "Vec2::sub_assign"       -> Vec2_sub(v, rhs, dbg)
      [] op = "Vec2::sub_assign_tuple" -> Vec2_sub_tuple(v, rhs, dbg)
      [] op = "Vec2::mul_assign"       -> Vec2_mul(v, rhs, dbg)
      [] op = "Vec2::div_assign"       -> Vec2_div(v, rhs, dbg)
      [] op = "Vec3::add_assign"       -> Vec3_add(v, rhs, dbg)
      [] op = "Vec3::add_assign_tuple" -> Vec3_add_tuple(v, rhs, dbg)
      [] op = "Vec3::sub_assign"       -> Vec3_sub(v, rhs, dbg)
      [] op = "Vec3::sub_assign_tuple" -> Vec3_sub_tuple(v, rhs, dbg)
      [] op = "Vec3::mul_assign"       -> Vec3_mul(v, rhs, dbg)
      [] op = "Vec3::div_assign"       -> Vec3_div(v, rhs, dbg)

\* C15: after v += w, v -= w, v *= s, v /= s (tuple right-hand sides of +=
\* and -= included) the receiver equals v + w, v - w, v * s, v / s computed
\* from the prior v, whenever neither form aborts; a value-returning
\* operator leaves its receiver as it was.
C15_AssignMatchesValueForm ==
    /\ last.op \in AssignOps /\ last.ok
       /\ ValueForm(last.op, last.self, last.arg, debug_assertions).ok
       => vec = ValueForm(last.op, last.self, last.arg, debug_assertions).val
    /\ last.op \in ValueOps => vec = last.self

C15_Witness ==
    /\ last.op = "Vec2::mul_assign"
    /\ last.self = Vec2_new(FromInt(3), FromInt(-6))
    /\ last.arg = FromInt(2)
    /\ last.ok
    /\ vec = Vec2_new(FromInt(6), FromInt(-12))


NormalizeOps == {"Vec2::normalize", "Vec3::normalize"}

TryOps == {"Vec2::try_get_normalized", "Vec3::try_get_normalized"}

GetNormalized(v, dbg) ==
    IF Is2(v) THEN Vec2_get_normalized(v, dbg)
    ELSE Vec3_get_normalized(v, dbg)

Length(v, dbg) ==
    IF Is2(v) THEN Vec2_len(v, dbg) ELSE Vec3_magnitude(v, dbg)

\* get_normalized() and normalize() abort with a division by zero: the
\* length is computed, and it is the zero divisor.
AbortsDividingByZero(v, dbg) ==
    /\ ~GetNormalized(v, dbg).ok
    /\ Length(v, dbg).ok
    /\ Length(v, dbg).val = ZERO

\* C16: normalize() leaves the receiver equal to v.get_normalized();
\* whenever v.try_get_normalized() returns Some(u), u == v.get_normalized();
\* and try_get_normalized() returns None exactly on the inputs where
\* get_normalized() and normalize() abort with a division by zero.
C16_NormalizationsAgree ==
    LET gn == GetNormalized(last.self, debug_assertions)
    IN  /\ last.op \in NormalizeOps =>
              /\ last.ok <=> gn.ok
              /\ last.ok => vec = gn.val
        /\ last.op \in TryOps /\ last.ok /\ last.ret.some
           => gn.ok /\ last.ret.val = gn.val
        /\ last.op \in TryOps =>
              ((last.ok /\ ~last.ret.some)
               <=> AbortsDividingByZero(last.self, debug_assertions))

C16_Witness ==
    /\ last.op = "Vec2::try_get_normalized"
    /\ last.self = Vec2_new(FromInt(3), FromInt(4))
    /\ last.ok
    /\ last.ret.some
    /\ last.ret.val = Vec2_get_normalized(last.self, debug_assertions).val
    /\ last.ret.val # last.self


\* C17: when a compound assignment (+=, -=, *=, /=) or normalize() aborts,
\* the receiver still holds the value it had before the call.
C17_NoPartialUpdateOnFailure ==
    last.op \in AssignOps \cup NormalizeOps /\ ~last.ok => vec = last.self

\* C18: len_pow2() (Vec3: magintude_pow2()) never returns a negative value,
\* so len() / magnitude() never hands a negative value to the square root.
C18_SquaredLengthNotNegative ==
    /\ last.op \in PowOps /\ last.ok => last.ret >= ZERO
    /\ last.op \in {"Vec2::len", "Vec3::magnitude"}
       /\ SqrtOperand(last.self, debug_assertions).ok
       => SqrtOperand(last.self, debug_assertions).val >= ZERO

====
